---- MODULE Spec2Model ----
(***************************************************************************)
(* Model of render_video.py: the subtitle timeline generator               *)
(* (generate_subtitles_from_script, format_ass_time), the 9:16 crop of     *)
(* render_video, the cloud-drive / direct acquisition ladder of            *)
(* download_video and the orchestration of main_async.                     *)
(*                                                                         *)
(* Text is modelled as sequences of one-character strings.  Times are      *)
(* Python floats in the source; here they are exact rationals [n, d], so a *)
(* violation found here does not depend on floating-point rounding.        *)
(***************************************************************************)
EXTENDS Integers, Sequences, FiniteSets, TLC

VARIABLES
    \* generate_subtitles_from_script: its arguments and the Dialogue lines
    script, audio_duration, ass_events, sub_pc,
    \* render_video: the probed frame size and the crop it derives
    width, height, crop_filter, crop_pc,
    \* main_async: payload, position, working directory and its files,
    \* external calls made so far, the exception that ended the run,
    \* stages started / returned, whether background.mp4 holds the media,
    \* download_video's return value and upload_to_catbox's return value
    payload, pc, temp_dir, files, calls, error, started, completed,
    media_obtained, video_path, download_url

sub_vars == <<script, audio_duration, ass_events, sub_pc>>
crop_vars == <<width, height, crop_filter, crop_pc>>
run_vars == <<payload, pc, temp_dir, files, calls, error, started, completed,
              media_obtained, video_path, download_url>>

vars == <<script, audio_duration, ass_events, sub_pc,
          width, height, crop_filter, crop_pc,
          payload, pc, temp_dir, files, calls, error, started, completed,
          media_obtained, video_path, download_url>>

(***************************************************************************)
(* Bounds of the explored inputs.                                          *)
(***************************************************************************)
MaxSentences == 3
MaxWords == 13
Durations == {1, 10, 75}
MaxDim == 16

(***************************************************************************)
(* Exact arithmetic standing for the float arithmetic of the source.       *)
(***************************************************************************)
RECURSIVE GCD(_, _)
GCD(a, b) == IF b = 0 THEN a ELSE GCD(b, a % b)

Abs(x) == IF x < 0 THEN -x ELSE x

Rat(n, d) ==
    LET g == GCD(Abs(n), d)
    IN  [n |-> n \div g, d |-> d \div g]

RInt(k) == [n |-> k, d |-> 1]
RAdd(x, y) == Rat(x.n * y.d + y.n * x.d, x.d * y.d)
RSub(x, y) == Rat(x.n * y.d - y.n * x.d, x.d * y.d)
RMul(x, y) == Rat(x.n * y.n, x.d * y.d)
RDiv(x, y) == Rat(x.n * y.d, x.d * y.n)
RLt(x, y) == x.n * y.d < y.n * x.d
RLe(x, y) == x.n * y.d <= y.n * x.d
RMin(x, y) == IF RLt(y, x) THEN y ELSE x
RMax(x, y) == IF RLt(x, y) THEN y ELSE x
RFloor(x) == x.n \div x.d

(***************************************************************************)
(* String helpers: str.strip, str.split, ' '.join, str.upper, str.replace  *)
(* and re.split(r'(?<=[.!?])\s+', s), on sequences of characters.          *)
(***************************************************************************)
Whitespace == {" "}
SentenceEnd == {".", "!", "?"}
Markup == {"\\", "{", "}"}

RECURSIVE LStrip(_)
LStrip(s) ==
    IF s # <<>> /\ Head(s) \in Whitespace THEN LStrip(Tail(s)) ELSE s

RECURSIVE RStrip(_)
RStrip(s) ==
    IF s # <<>> /\ s[Len(s)] \in Whitespace
    THEN RStrip(SubSeq(s, 1, Len(s) - 1))
    ELSE s

Strip(s) == RStrip(LStrip(s))

\* re.split(r'(?<=[.!?])\s+', s): a run of whitespace is a separator exactly
\* when the character before the run is sentence-terminal punctuation.
\* cur is the piece being collected, acc the pieces already closed.
RECURSIVE ReSplitFrom(_, _, _, _)
ReSplitFrom(s, i, cur, acc) ==
    IF i > Len(s) THEN Append(acc, cur)
    ELSE IF s[i] \in Whitespace /\ i > 1 /\ s[i - 1] \in SentenceEnd
         THEN LET rest == LStrip(SubSeq(s, i, Len(s)))
              IN  ReSplitFrom(rest, 1, <<>>, Append(acc, cur))
         ELSE ReSplitFrom(s, i + 1, Append(cur, s[i]), acc)

ReSplit(s) == ReSplitFrom(s, 1, <<>>, <<>>)

\* [s.strip() for s in sentences if s.strip()]
RECURSIVE StripNonEmpty(_)
StripNonEmpty(ss) ==
    IF ss = <<>> THEN <<>>
    ELSE IF Strip(Head(ss)) = <<>> THEN StripNonEmpty(Tail(ss))
         ELSE <<Strip(Head(ss))>> \o StripNonEmpty(Tail(ss))

\* str.split(): split on runs of whitespace, no empty words.
RECURSIVE SplitWordsFrom(_, _, _)
SplitWordsFrom(s, cur, acc) ==
    IF s = <<>> THEN (IF cur = <<>> THEN acc ELSE Append(acc, cur))
    ELSE IF Head(s) \in Whitespace
         THEN SplitWordsFrom(Tail(s), <<>>,
                             IF cur = <<>> THEN acc ELSE Append(acc, cur))
         ELSE SplitWordsFrom(Tail(s), Append(cur, Head(s)), acc)

SplitWords(s) == SplitWordsFrom(s, <<>>, <<>>)

\* ' '.join(words)
RECURSIVE Join(_)
Join(ws) ==
    IF ws = <<>> THEN <<>>
    ELSE IF Len(ws) = 1 THEN ws[1]
         ELSE ws[1] \o <<" ">> \o Join(Tail(ws))

UpperChar(c) == IF c = "a" THEN "A" ELSE c

\* chunk_text.upper().replace('\\', '').replace('{', '').replace('}', '')
CleanText(t) ==
    LET up == [i \in 1..Len(t) |-> UpperChar(t[i])]
    IN  SelectSeq(up, LAMBDA c : c \notin Markup)

(***************************************************************************)
(* format_ass_time: H:MM:SS.CC.  The seconds field is seconds % 60 printed *)
(* with two decimals (round half to even), so it can read 60.00 while the  *)
(* minutes field was truncated.  The string is kept as its four numbers.   *)
(***************************************************************************)
RoundHalfEven(x) ==
    LET f == RFloor(x)
        twice == RSub(RMul(RInt(2), x), RInt(2 * f))
    IN  IF RLt(twice, RInt(1)) THEN f
        ELSE IF RLt(RInt(1), twice) THEN f + 1
        ELSE IF f % 2 = 0 THEN f ELSE f + 1

format_ass_time(seconds) ==
    LET whole == RFloor(seconds)
        hours == whole \div 3600
        minutes == (whole % 3600) \div 60
        secs == RSub(seconds, RInt(whole - (whole % 60)))
        centis == RoundHalfEven(RMul(secs, RInt(100)))
    IN  <<hours, minutes, centis \div 100, centis % 100>>

(***************************************************************************)
(* generate_subtitles_from_script                                          *)
(***************************************************************************)
chunk_size == 6

\* sentences = re.split(...); strip and drop empties; if none, [script]
Sentences(s) ==
    LET sentences == StripNonEmpty(ReSplit(s))
    IN  IF sentences = <<>> THEN <<s>> ELSE sentences

time_per_sentence(s, duration) == RDiv(duration, RInt(Len(Sentences(s))))

\* time_per_chunk = sentence_duration / max(1, len(words) / chunk_size)
time_per_chunk(words, sentence_duration) ==
    RDiv(sentence_duration, RMax(RInt(1), Rat(Len(words), chunk_size)))

Dialogue(start, end, text) ==
    [start |-> start, end |-> end,
     start_str |-> format_ass_time(start), end_str |-> format_ass_time(end),
     text |-> text]

\* for i in range(0, len(words), chunk_size): ...   (i is 0-based)
\* Returns the running time and the Dialogue lines written so far.
RECURSIVE ChunkLoop(_, _, _, _, _, _)
ChunkLoop(words, i, per_chunk, current_time, duration, lines) ==
    IF i >= Len(words) THEN [current_time |-> current_time, lines |-> lines]
    ELSE LET last == IF i + chunk_size < Len(words)
                     THEN i + chunk_size ELSE Len(words)
             chunk_text == Join(SubSeq(words, i + 1, last))
             end_time == RMin(RAdd(current_time, per_chunk), duration)
             clean_text == CleanText(chunk_text)
             written == IF clean_text # <<>>
                        THEN Append(lines,
                                    Dialogue(current_time, end_time, clean_text))
                        ELSE lines
         IN  ChunkLoop(words, i + chunk_size, per_chunk, end_time, duration,
                       written)

\* for sentence in sentences: ...
RECURSIVE SentenceLoop(_, _, _, _, _)
SentenceLoop(sentences, per_sentence, current_time, duration, lines) ==
    IF sentences = <<>> THEN lines
    ELSE LET words == SplitWords(Head(sentences))
             r == ChunkLoop(words, 0, time_per_chunk(words, per_sentence),
                            current_time, duration, lines)
         IN  SentenceLoop(Tail(sentences), per_sentence, r.current_time,
                          duration, r.lines)

generate_subtitles_from_script(s, duration) ==
    SentenceLoop(Sentences(s), time_per_sentence(s, duration), RInt(0),
                 duration, <<>>)

(***************************************************************************)
(* Scripts explored: up to MaxSentences sentences of up to MaxWords words, *)
(* every sentence but the last closed by a full stop; the last word of the *)
(* script is a plain word, a word with a full stop, or a word made only of *)
(* characters the caption cleaning removes.  Blank scripts are added.      *)
(***************************************************************************)
RECURSIVE PlainWords(_)
PlainWords(n) ==
    IF n = 0 THEN <<>>
    ELSE IF n = 1 THEN <<"a">>
         ELSE <<"a", " ">> \o PlainWords(n - 1)

LastWords == {<<"a">>, <<"a", ".">>, <<"{", "}">>}

RECURSIVE BuildScript(_, _, _)
BuildScript(lens, k, lastWord) ==
    IF k = Len(lens)
    THEN (IF lens[k] = 1 THEN lastWord
          ELSE PlainWords(lens[k] - 1) \o <<" ">> \o lastWord)
    ELSE PlainWords(lens[k]) \o <<".", " ">> \o BuildScript(lens, k + 1, lastWord)

BlankScripts == {<<>>, <<" ">>, <<" ", " ">>}

Scripts ==
    BlankScripts \cup
    { BuildScript(lens, 1, w) :
        lens \in UNION { [1..k -> 1..MaxWords] : k \in 1..MaxSentences },
        w \in LastWords }

(***************************************************************************)
(* Subtitle generator run on its own.                                      *)
(***************************************************************************)
IdleSubtitles ==
    /\ script = <<>>
    /\ audio_duration = RInt(0)
    /\ ass_events = <<>>
    /\ sub_pc = "idle"

IdleCrop ==
    /\ width = 0
    /\ height = 0
    /\ crop_filter = <<>>
    /\ crop_pc = "idle"

IdleRun ==
    /\ payload = [keys |-> {}, script |-> <<>>, video_url |-> "none"]
    /\ pc = "idle"
    /\ temp_dir = FALSE
    /\ files = {}
    /\ calls = <<>>
    /\ error = "none"
    /\ started = <<>>
    /\ completed = {}
    /\ media_obtained = FALSE
    /\ video_path = "none"
    /\ download_url = "none"

InitSubtitles ==
    /\ script \in Scripts
    /\ audio_duration \in { RInt(d) : d \in Durations }
    /\ ass_events = <<>>
    /\ sub_pc = "called"
    /\ IdleCrop
    /\ IdleRun

GenerateSubtitles ==
    /\ sub_pc = "called"
    /\ ass_events' = generate_subtitles_from_script(script, audio_duration)
    /\ sub_pc' = "written"
    /\ UNCHANGED <<script, audio_duration>>
    /\ UNCHANGED <<crop_vars, run_vars>>

NextSubtitles == GenerateSubtitles

SpecSubtitles == InitSubtitles /\ [][NextSubtitles]_vars

(***************************************************************************)
(* render_video: crop to 9:16.  int() truncates; for frame sizes the float *)
(* quotients of the source truncate to the same integers as the exact ones.*)
(***************************************************************************)
target_ratio == Rat(9, 16)

source_ratio(w, h) == Rat(w, h)

\* The mutation of IsTooWide: the comparison turned around.
IsTooWideFlipped(w, h) == RLt(source_ratio(w, h), target_ratio)

\* if source_ratio > target_ratio:
IsTooWide(w, h) == RLt(target_ratio, source_ratio(w, h))

\* crop=new_width:height  or  crop=width:new_height
CropFor(w, h) ==
    IF IsTooWide(w, h)
    THEN LET new_width == RFloor(RMul(RInt(h), target_ratio))
         IN  [w |-> new_width, h |-> h]
    ELSE LET new_height == RFloor(RDiv(RInt(w), target_ratio))
         IN  [w |-> w, h |-> new_height]

Dims == (1..MaxDim) \cup {1080, 1920}

InitCrop ==
    /\ width \in Dims
    /\ height \in Dims
    /\ crop_filter = <<>>
    /\ crop_pc = "probed"
    /\ IdleSubtitles
    /\ IdleRun

ComputeCrop ==
    /\ crop_pc = "probed"
    /\ crop_filter' = CropFor(width, height)
    /\ crop_pc' = "cropped"
    /\ UNCHANGED <<width, height>>
    /\ UNCHANGED <<sub_vars, run_vars>>

NextCrop == ComputeCrop

SpecCrop == InitCrop /\ [][NextCrop]_vars

\* C4: for every source size with positive width and height the crop fits
\* inside the source, keeps one source dimension and sets the other to the
\* truncated 9:16 companion, so the crop's ratio is 9/16 up to truncation;
\* 1920x1080 gives 607x1080.
C4_CropFitsAndIsNineBySixteen ==
    crop_pc = "cropped" =>
        /\ crop_filter.w <= width
        /\ crop_filter.h <= height
        /\ IF 16 * width > 9 * height
           THEN /\ crop_filter.h = height
                /\ crop_filter.w = (height * 9) \div 16
                /\ 9 * crop_filter.h - 16 * crop_filter.w \in 0..15
           ELSE /\ crop_filter.w = width
                /\ crop_filter.h = (width * 16) \div 9
                /\ 16 * crop_filter.w - 9 * crop_filter.h \in 0..8
        /\ (width = 1920 /\ height = 1080) => crop_filter = [w |-> 607, h |-> 1080]

C4_Witness ==
    /\ crop_pc = "cropped"
    /\ width = 1920
    /\ height = 1080
    /\ crop_filter = [w |-> 607, h |-> 1080]

(***************************************************************************)
(* main / main_async with download_video, render_video, upload_to_catbox.  *)
(* Every action is the code up to and including one external call, whose   *)
(* outcome is chosen nondeterministically.                                 *)
(***************************************************************************)
RequiredKeys == {"story_title", "script", "video_url", "timestamp"}

\* payload['video_url'] by shape: a drive link with /d/<id>, with id=<id>,
\* with neither, and a link that does not contain 'drive.google.com'.
Urls == {"drive/d/ID", "drive?id=ID", "drive", "direct"}

RunScripts == {<<>>, BuildScript(<<2, 8>>, 1, <<"a", ".">>)}
RunDurations == {10}
RunDims == {<<1920, 1080>>, <<9, 16>>}

\* A key that is absent carries no value: its field is a placeholder that
\* no action reads.
Payloads ==
    UNION { { [keys |-> K, script |-> s, video_url |-> u] :
                s \in IF "script" \in K THEN RunScripts ELSE {<<>>},
                u \in IF "video_url" \in K THEN Urls ELSE {"none"} } :
            K \in SUBSET RequiredKeys }

Has(k) == k \in payload.keys

\* 'drive.google.com' in video_url
IsDriveLink(u) == u \in {"drive/d/ID", "drive?id=ID", "drive"}

\* re.search(r'/d/([a-zA-Z0-9_-]+)') or re.search(r'id=([a-zA-Z0-9_-]+)')
HasFileId(u) == u \in {"drive/d/ID", "drive?id=ID"}

Call(name, outcome) == [call |-> name, outcome |-> outcome]

\* The mutation of ExitScope: the directory is left behind.
ExitScopeLeaks(dir) == dir

\* Leaving `with tempfile.TemporaryDirectory()`: the directory is removed.
ExitScope(dir) == FALSE

\* An exception raised inside the with block: the scope is left, the
\* exception reaches main and the process ends.
Raise(exc) ==
    /\ pc' = "Failed"
    /\ error' = exc
    /\ temp_dir' = ExitScope(temp_dir)
    /\ files' = {}

InitRun ==
    /\ payload \in Payloads
    /\ pc = "main"
    /\ temp_dir = FALSE
    /\ files = {}
    /\ calls = <<>>
    /\ error = "none"
    /\ started = <<>>
    /\ completed = {}
    /\ media_obtained = FALSE
    /\ video_path = "none"
    /\ download_url = "none"
    /\ IdleSubtitles
    /\ IdleCrop

\* main_async up to the with statement: the banner reads story_title.
Start ==
    /\ pc = "main"
    /\ IF Has("story_title")
       THEN /\ pc' = "tts"
            /\ temp_dir' = TRUE
            /\ UNCHANGED error
       ELSE /\ pc' = "Failed"
            /\ error' = "KeyError"
            /\ UNCHANGED temp_dir
    /\ UNCHANGED <<payload, files, calls, started, completed, media_obtained,
                   video_path, download_url>>
    /\ UNCHANGED <<sub_vars, crop_vars>>

\* [1/5] generate_tts(payload['script'], audio_path)
Synthesize ==
    /\ pc = "tts"
    /\ started' = Append(started, "Synthesize")
    /\ IF ~Has("script")
       THEN /\ Raise("KeyError")
            /\ UNCHANGED calls
       ELSE \E outcome \in {"saved", "raised"} :
              /\ calls' = Append(calls, Call("edge_tts", outcome))
              /\ IF outcome = "saved"
                 THEN /\ pc' = "probe_audio"
                      /\ files' = files \cup {"audio.mp3"}
                      /\ UNCHANGED <<error, temp_dir>>
                 ELSE Raise("SynthesisError")
    /\ UNCHANGED <<payload, completed, media_obtained, video_path,
                   download_url>>
    /\ UNCHANGED <<sub_vars, crop_vars>>

\* get_audio_duration: ffprobe; an empty answer makes float() raise.
ProbeAudio ==
    /\ pc = "probe_audio"
    /\ \E outcome \in {"duration", "empty"} :
         /\ calls' = Append(calls, Call("ffprobe", outcome))
         /\ IF outcome = "duration"
            THEN /\ \E d \in RunDurations : audio_duration' = RInt(d)
                 /\ pc' = "download"
                 /\ completed' = completed \cup {"Synthesize"}
                 /\ UNCHANGED <<error, temp_dir, files>>
            ELSE /\ Raise("ValueError")
                 /\ UNCHANGED <<audio_duration, completed>>
    /\ UNCHANGED <<payload, started, media_obtained, video_path, download_url>>
    /\ UNCHANGED <<script, ass_events, sub_pc, crop_vars>>

\* [2/5] download_video(payload['video_url'], ...) up to its first transfer.
BeginDownload ==
    /\ pc = "download"
    /\ started' = Append(started, "Acquire")
    /\ IF ~Has("video_url") THEN Raise("KeyError")
       ELSE IF ~IsDriveLink(payload.video_url)
            THEN /\ pc' = "direct"
                 /\ UNCHANGED <<error, temp_dir, files>>
       ELSE IF ~HasFileId(payload.video_url) THEN Raise("RuntimeError")
       ELSE /\ pc' = "rclone"
            /\ UNCHANGED <<error, temp_dir, files>>
    /\ UNCHANGED <<payload, calls, completed, media_obtained, video_path,
                   download_url>>
    /\ UNCHANGED <<sub_vars, crop_vars>>

\* download_video returns output_path to main_async.
ReturnVideo(mediaWritten) ==
    /\ pc' = "caption"
    /\ files' = files \cup {"background.mp4"}
    /\ media_obtained' = mediaWritten
    /\ video_path' = "background.mp4"
    /\ completed' = completed \cup {"Acquire"}
    /\ UNCHANGED <<error, temp_dir>>

\* subprocess.run(['rclone', 'copy', ...]) and the returncode == 0 branch.
Rclone ==
    /\ pc = "rclone"
    /\ \E outcome \in {"not_installed", "nonzero", "copied_mp4", "copied_nothing"} :
         /\ calls' = Append(calls, Call("rclone", outcome))
         /\ CASE outcome = "not_installed" ->
                   /\ Raise("FileNotFoundError")
                   /\ UNCHANGED <<media_obtained, video_path, completed>>
              [] outcome = "nonzero" ->
                   /\ pc' = "gdown"
                   /\ UNCHANGED <<error, temp_dir, files, media_obtained,
                                  video_path, completed>>
              [] outcome = "copied_mp4" -> ReturnVideo(TRUE)
              [] outcome = "copied_nothing" ->
                   \* os.path.getsize(output_path) on a missing file
                   /\ Raise("FileNotFoundError")
                   /\ UNCHANGED <<media_obtained, video_path, completed>>
    /\ UNCHANGED <<payload, started, download_url>>
    /\ UNCHANGED <<sub_vars, crop_vars>>

\* try: import gdown; gdown.download(...)  except ImportError: (next action)
Gdown ==
    /\ pc = "gdown"
    /\ \E outcome \in {"ImportError", "downloaded", "raised", "returned_none"} :
         /\ calls' = Append(calls, Call("gdown", outcome))
         /\ CASE outcome = "ImportError" ->
                   /\ pc' = "http"
                   /\ UNCHANGED <<error, temp_dir, files, media_obtained,
                                  video_path, completed>>
              [] outcome = "downloaded" -> ReturnVideo(TRUE)
              [] outcome = "raised" ->
                   /\ Raise("DownloadError")
                   /\ UNCHANGED <<media_obtained, video_path, completed>>
              [] outcome = "returned_none" ->
                   \* os.path.getsize(output_path) on a missing file
                   /\ Raise("FileNotFoundError")
                   /\ UNCHANGED <<media_obtained, video_path, completed>>
    /\ UNCHANGED <<payload, started, download_url>>
    /\ UNCHANGED <<sub_vars, crop_vars>>

\* except ImportError: session.get, the download_warning cookie, a second
\* session.get, and the response body written to output_path whatever its
\* status.
HttpFallback ==
    /\ pc = "http"
    /\ \E first \in {"raised", "ok", "warning", "error"} :
         IF first = "raised"
         THEN /\ calls' = Append(calls, Call("http_get", first))
              /\ Raise("ConnectionError")
              /\ UNCHANGED <<media_obtained, video_path, completed>>
         ELSE IF first = "warning"
         THEN \E second \in {"raised", "ok", "error"} :
                /\ calls' = calls \o <<Call("http_get", first),
                                       Call("http_get", second)>>
                /\ IF second = "raised"
                   THEN /\ Raise("ConnectionError")
                        /\ UNCHANGED <<media_obtained, video_path, completed>>
                   ELSE ReturnVideo(second = "ok")
         ELSE /\ calls' = Append(calls, Call("http_get", first))
              /\ ReturnVideo(first = "ok")
    /\ UNCHANGED <<payload, started, download_url>>
    /\ UNCHANGED <<sub_vars, crop_vars>>

\* Direct URL: requests.get, raise_for_status, stream to output_path.
DirectGet ==
    /\ pc = "direct"
    /\ \E outcome \in {"raised", "ok", "error"} :
         /\ calls' = Append(calls, Call("http_get", outcome))
         /\ CASE outcome = "raised" ->
                   /\ Raise("ConnectionError")
                   /\ UNCHANGED <<media_obtained, video_path, completed>>
              [] outcome = "error" ->
                   /\ Raise("HTTPError")
                   /\ UNCHANGED <<media_obtained, video_path, completed>>
              [] outcome = "ok" -> ReturnVideo(TRUE)
    /\ UNCHANGED <<payload, started, download_url>>
    /\ UNCHANGED <<sub_vars, crop_vars>>

\* [3/5] generate_subtitles_from_script(script, duration, temp_path)
Caption ==
    /\ pc = "caption"
    /\ started' = Append(started, "Caption")
    /\ ass_events' = generate_subtitles_from_script(payload.script,
                                                    audio_duration)
    /\ files' = files \cup {"subtitles.ass"}
    /\ completed' = completed \cup {"Caption"}
    /\ pc' = "render"
    /\ UNCHANGED <<payload, temp_dir, calls, error, media_obtained, video_path,
                   download_url>>
    /\ UNCHANGED <<script, audio_duration, sub_pc, crop_vars>>

\* [4/5] the output name reads payload['timestamp']; render_video probes the
\* background (ffprobe prints no size for a file that is not a video) and
\* computes the crop.
RenderProbe ==
    /\ pc = "render"
    /\ started' = Append(started, "Render")
    /\ IF ~Has("timestamp")
       THEN /\ Raise("KeyError")
            /\ UNCHANGED <<calls, width, height, crop_filter>>
       ELSE IF ~media_obtained
       THEN /\ calls' = Append(calls, Call("ffprobe", "empty"))
            /\ Raise("ValueError")
            /\ UNCHANGED <<width, height, crop_filter>>
       ELSE \E outcome \in {"size", "empty"} :
              /\ calls' = Append(calls, Call("ffprobe", outcome))
              /\ IF outcome = "size"
                 THEN /\ \E wh \in RunDims :
                           /\ width' = wh[1]
                           /\ height' = wh[2]
                           /\ crop_filter' = CropFor(wh[1], wh[2])
                      /\ pc' = "ffmpeg"
                      /\ UNCHANGED <<error, temp_dir, files>>
                 ELSE /\ Raise("ValueError")
                      /\ UNCHANGED <<width, height, crop_filter>>
    /\ UNCHANGED <<payload, completed, media_obtained, video_path,
                   download_url>>
    /\ UNCHANGED <<sub_vars, crop_pc>>

\* subprocess.run(ffmpeg ...); a non-zero exit raises RuntimeError.
Encode ==
    /\ pc = "ffmpeg"
    /\ \E outcome \in {"zero", "nonzero"} :
         /\ calls' = Append(calls, Call("ffmpeg", outcome))
         /\ IF outcome = "zero"
            THEN /\ files' = files \cup {"short.mp4"}
                 /\ completed' = completed \cup {"Render"}
                 /\ pc' = "upload"
                 /\ UNCHANGED <<error, temp_dir>>
            ELSE /\ Raise("RuntimeError")
                 /\ UNCHANGED completed
    /\ UNCHANGED <<payload, started, media_obtained, video_path, download_url>>
    /\ UNCHANGED <<sub_vars, crop_vars>>

\* [5/5] upload_to_catbox(output_path): open the file, post it, check the
\* status and that the answer is an https URL.
Publish ==
    /\ pc = "upload"
    /\ started' = Append(started, "Publish")
    /\ IF ~(temp_dir /\ "short.mp4" \in files)
       THEN /\ Raise("FileNotFoundError")
            /\ UNCHANGED <<calls, completed, download_url>>
       ELSE \E outcome \in {"url", "http_error", "not_a_url"} :
              /\ calls' = Append(calls, Call("catbox", outcome))
              /\ CASE outcome = "url" ->
                        /\ download_url' = "https://"
                        /\ completed' = completed \cup {"Publish"}
                        /\ pc' = "report"
                        /\ UNCHANGED <<error, temp_dir, files>>
                   [] outcome = "http_error" ->
                        /\ Raise("HTTPError")
                        /\ UNCHANGED <<completed, download_url>>
                   [] outcome = "not_a_url" ->
                        /\ Raise("RuntimeError")
                        /\ UNCHANGED <<completed, download_url>>
    /\ UNCHANGED <<payload, media_obtained, video_path>>
    /\ UNCHANGED <<sub_vars, crop_vars>>

\* SUCCESS banner, GITHUB_OUTPUT, return download_url: the scope is left.
Finish ==
    /\ pc = "report"
    /\ pc' = "Done"
    /\ temp_dir' = ExitScope(temp_dir)
    /\ files' = {}
    /\ UNCHANGED <<payload, calls, error, started, completed, media_obtained,
                   video_path, download_url>>
    /\ UNCHANGED <<sub_vars, crop_vars>>

NextRun ==
    \/ Start
    \/ Synthesize
    \/ ProbeAudio
    \/ BeginDownload
    \/ Rclone
    \/ Gdown
    \/ HttpFallback
    \/ DirectGet
    \/ Caption
    \/ RenderProbe
    \/ Encode
    \/ Publish
    \/ Finish

SpecRun == InitRun /\ [][NextRun]_vars

(***************************************************************************)
(* Properties of the subtitle generator (checked under SpecSubtitles).     *)
(***************************************************************************)
HasWord(s) == SplitWords(s) # <<>>
IsBlank(s) == Strip(s) = <<>>
Written == sub_pc = "written"
LastEvent == ass_events[Len(ass_events)]

\* C1: for a script with at least one word and a positive duration the
\* written caption events are ordered and non-overlapping, the first starts
\* at 0 and the last one ends exactly at the audio duration.
C1_OrderedAndEndsAtDuration ==
    (Written /\ HasWord(script)) =>
        /\ ass_events # <<>>
        /\ ass_events[1].start = RInt(0)
        /\ \A i \in 1..Len(ass_events) :
               RLe(ass_events[i].start, ass_events[i].end)
        /\ \A i \in 2..Len(ass_events) :
               RLe(ass_events[i - 1].end, ass_events[i].start)
        /\ LastEvent.end = audio_duration

\* C2: every written caption event has start < end and end <= duration.
C2_StartBeforeEnd ==
    Written =>
        \A i \in 1..Len(ass_events) :
            /\ RLt(ass_events[i].start, ass_events[i].end)
            /\ RLe(ass_events[i].end, audio_duration)

\* C3: for an empty or whitespace-only script the generator substitutes a
\* fallback sentence: at least one caption event is written and the events
\* run from 0 to the audio duration.
C3_BlankScriptStillCaptioned ==
    (Written /\ IsBlank(script)) =>
        /\ ass_events # <<>>
        /\ ass_events[1].start = RInt(0)
        /\ LastEvent.end = audio_duration

\* The timing C9 describes: sentence k (0-based) owns
\* [k * perSentence, (k + 1) * perSentence], cut evenly into as many slots
\* as the sentence has 6-word chunks.
ChunkCount(words) == (Len(words) + chunk_size - 1) \div chunk_size

EvenSlots(words, k, perSentence) ==
    LET c == ChunkCount(words)
        perChunk == RDiv(perSentence, RInt(c))
        base == RMul(RInt(k), perSentence)
        last(j) == IF j * chunk_size < Len(words)
                   THEN j * chunk_size ELSE Len(words)
        slots == [j \in 1..c |->
                    [start |-> RAdd(base, RMul(RInt(j - 1), perChunk)),
                     end |-> RAdd(base, RMul(RInt(j), perChunk)),
                     text |-> CleanText(Join(SubSeq(words,
                                  (j - 1) * chunk_size + 1, last(j))))]]
    IN  SelectSeq(slots, LAMBDA e : e.text # <<>>)

RECURSIVE EvenTimeline(_, _, _)
EvenTimeline(sentences, k, perSentence) ==
    IF k >= Len(sentences) THEN <<>>
    ELSE EvenSlots(SplitWords(sentences[k + 1]), k, perSentence)
         \o EvenTimeline(sentences, k + 1, perSentence)

\* C9: every sentence gets exactly duration / sentenceCount of screen time,
\* shared evenly by its chunks: the captions of sentence k start at
\* k * perSentence and end at (k + 1) * perSentence.
C9_EqualTimePerSentence ==
    (Written /\ HasWord(script)) =>
        [i \in 1..Len(ass_events) |->
            [start |-> ass_events[i].start, end |-> ass_events[i].end,
             text |-> ass_events[i].text]]
        = EvenTimeline(Sentences(script), 0,
                       time_per_sentence(script, audio_duration))

(***************************************************************************)
(* Properties of a run of main_async (checked under SpecRun).              *)
(***************************************************************************)
Attempted(name) == \E i \in 1..Len(calls) : calls[i].call = name

Outcome(name, outcomes) ==
    \E i \in 1..Len(calls) :
        calls[i].call = name /\ calls[i].outcome \in outcomes

LastStage == IF started = <<>> THEN "none" ELSE started[Len(started)]

DownloadRaised == pc = "Failed" /\ LastStage = "Acquire"

RcloneFailed == Outcome("rclone", {"nonzero", "not_installed"})

GdownFailed == Outcome("gdown", {"ImportError", "raised", "returned_none"})

\* The last GET of the fallback came back with a non-success status.
HttpRefused ==
    /\ Attempted("http_get")
    /\ calls[Len(calls)] = Call("http_get", "error")

\* C5: when rclone fails and gdown also fails, for whatever reason, the raw
\* HTTP GET is attempted before download_video raises.
C5_HttpFallbackBeforeRaise ==
    (DownloadRaised /\ RcloneFailed /\ GdownFailed) => Attempted("http_get")

\* C6: a missing required payload field ends the run before any external
\* call (speech synthesis, download, probe, encoder, upload) was made.
C6_MalformedInputBeforeCalls ==
    (pc = "Failed" /\ error = "KeyError") => calls = <<>>

StageOrder == <<"Synthesize", "Acquire", "Caption", "Render", "Publish">>

\* A stage succeeded when it returned to main_async and, for Acquire, the
\* background file it returned holds the media.
Succeeded(stage) ==
    /\ stage \in completed
    /\ stage = "Acquire" => media_obtained

\* C7: the stages start in the fixed order, each only after the previous one
\* succeeded; after a failed stage no later stage runs, so Publish never runs
\* in a run where an earlier stage failed.
C7_StagesInOrderAndStopOnFailure ==
    /\ Len(started) <= Len(StageOrder)
    /\ \A i \in 1..Len(started) : started[i] = StageOrder[i]
    /\ \A i \in 2..Len(started) : Succeeded(StageOrder[i - 1])

\* C10: for a drive link, when rclone fails, gdown is unavailable or fails
\* and the HTTP GET is refused, download_video does not return a path.
C10_NoPathWithoutMedia ==
    (RcloneFailed /\ GdownFailed /\ HttpRefused) => video_path = "none"

\* C8: the working directory is gone in every terminal state, and the
\* upload returns while the directory still exists.
C8_DirectoryReleased ==
    /\ [](pc \in {"Done", "Failed"} => ~temp_dir)
    /\ [](pc = "Done" => download_url # "none")
    /\ [][download_url' # download_url => (temp_dir /\ temp_dir')]_vars

C8_Witness ==
    /\ pc = "Done"
    /\ Outcome("catbox", {"url"})
    /\ download_url # "none"
    /\ ~temp_dir

====
